---- MODULE Spec2Model ----
(***************************************************************************)
(* Model of tools/png_to_icns.py: the command dispatch of __main__, the    *)
(* conversion create_icns and the inspection inspect_icns, one run of the  *)
(* program per behaviour.  Every library call that can raise (Image.open,  *)
(* mkdtemp, resize, save, add_media, write, stat, the IcnsFile parser) has *)
(* a successful step and a failing step.                                   *)
(***************************************************************************)
EXTENDS Integers, Sequences, FiniteSets, TLC

VARIABLES
    argv,           \* sys.argv[1:]
    inputFile,      \* what lies at the input path: [kind, size]
    icnsFile,       \* what lies at the path given to --inspect: [kind, chunks]
    preexisting,    \* what lay at the output path when the program started
    outFile,        \* what lies at the output path now: [kind, chunks]
    pc,             \* position of the program
    output_path,    \* create_icns: output_path after lines 49-52
    original_size,  \* create_icns: source_img.size
    warned,         \* create_icns: the warning of line 66 was printed
    temp_dir,       \* "none", "exists" or "removed"
    temp_files,     \* names of the files saved in temp_dir
    i,              \* create_icns: index of the for loop over ICON_TYPES
    media,          \* create_icns: icns.media, in insertion order
    sizes_added,    \* create_icns: sizes_added
    writes,         \* number of calls of icns.write that were started
    exc,            \* the exception in flight, "none" if there is none
    report,         \* what the program printed about its failure, "none" if nothing
    exitCode,       \* exit status of the process, Running until it exits
    insp_media,     \* inspect_icns: icns.media of the parsed file
    k,              \* inspect_icns: index of the loop over icns.media
    printed         \* inspect_icns: the lines printed per entry

vars == <<argv, inputFile, icnsFile, preexisting, outFile, pc, output_path,
          original_size, warned, temp_dir, temp_files, i, media, sizes_added,
          writes, exc, report, exitCode, insp_media, k, printed>>

----------------------------------------------------------------------------
(* Bounds of the model *)

\* longest container handed to --inspect
MaxChunks == 2

\* widths and heights of the source image
Dims == {8, 16, 100, 512, 1024, 2000}

\* payload lengths of the chunks of an inspected container
PayloadLens == {0, 3}

Running == -1

----------------------------------------------------------------------------
(* The tables *)

ICON_TYPES ==
    << <<"icp4", 16, "16x16">>,
       <<"icp5", 32, "32x32">>,
       <<"icp6", 64, "64x64">>,
       <<"ic07", 128, "128x128">>,
       <<"ic08", 256, "256x256">>,
       <<"ic09", 512, "512x512">>,
       <<"ic10", 1024, "1024x1024 (512@2x)">> >>

\* the table of lines 122-134 with one label out of step with ICON_TYPES
type_info_drift ==
    [key \in {"icp4", "icp5", "icp6", "ic07", "ic08", "ic09", "ic10",
              "ic11", "ic12", "ic13", "ic14"} |->
        CASE key = "icp4" -> "16x16"
          [] key = "icp5" -> "32x32"
          [] key = "icp6" -> "64x64"
          [] key = "ic07" -> "128x128"
          [] key = "ic08" -> "256x256"
          [] key = "ic09" -> "512x512"
          [] key = "ic10" -> "1024x1024"
          [] key = "ic11" -> "32x32 (16@2x)"
          [] key = "ic12" -> "64x64 (32@2x)"
          [] key = "ic13" -> "256x256 (128@2x)"
          [] key = "ic14" -> "512x512 (256@2x)"]

type_info ==
    [key \in {"icp4", "icp5", "icp6", "ic07", "ic08", "ic09", "ic10",
              "ic11", "ic12", "ic13", "ic14"} |->
        CASE key = "icp4" -> "16x16"
          [] key = "icp5" -> "32x32"
          [] key = "icp6" -> "64x64"
          [] key = "ic07" -> "128x128"
          [] key = "ic08" -> "256x256"
          [] key = "ic09" -> "512x512"
          [] key = "ic10" -> "1024x1024 (512@2x)"
          [] key = "ic11" -> "32x32 (16@2x)"
          [] key = "ic12" -> "64x64 (32@2x)"
          [] key = "ic13" -> "256x256 (128@2x)"
          [] key = "ic14" -> "512x512 (256@2x)"]

\* dict.get(key) without the default
TypeInfoGetNoDefault(key, default) ==
    IF key \in DOMAIN type_info THEN type_info[key] ELSE "None"

\* dict.get(key, default)
TypeInfoGet(key, default) ==
    IF key \in DOMAIN type_info THEN type_info[key] ELSE default

\* max(original_size)
Max(size) == IF size[1] >= size[2] THEN size[1] ELSE size[2]

\* the test of line 78 with a strict comparison
EligibleStrict(size, osize) == size < Max(osize)

\* the test of line 78
Eligible(size, osize) == size <= Max(osize)

\* the test of line 65 with "and" for "or"
SmallerThan512Both(osize) == osize[1] < 512 /\ osize[2] < 512

\* the test of line 65
SmallerThan512(osize) == osize[1] < 512 \/ osize[2] < 512

\* Path.with_suffix('.icns') on the input paths of the model
WithSuffixIcns(path) == IF path = "input.png" THEN "input.icns" ELSE "other.icns"

----------------------------------------------------------------------------
(* Files *)

Absent == [kind |-> "absent", chunks |-> <<>>]
OldFile == [kind |-> "old", chunks |-> <<>>]
Partial == [kind |-> "partial", chunks |-> <<>>]
Malformed == [kind |-> "malformed", chunks |-> <<>>]
IcnsOf(m) == [kind |-> "icns", chunks |-> m]

NoInput == [kind |-> "absent", size |-> <<0, 0>>]
NotImage == [kind |-> "notimage", size |-> <<0, 0>>]
Png(w, h) == [kind |-> "png", size |-> <<w, h>>]

\* tags a container handed to --inspect may hold
TagPool == DOMAIN type_info \cup {"zzzz", "TOC "}

RECURSIVE SeqsUpTo(_, _)
SeqsUpTo(S, n) ==
    IF n = 0 THEN {<<>>}
    ELSE LET shorter == SeqsUpTo(S, n - 1)
         IN shorter \cup {Append(s, x) : s \in shorter, x \in S}

Keys(m) == [j \in 1..Len(m) |-> m[j][1]]

DistinctKeys(m) == \A a, b \in 1..Len(m) : a # b => m[a][1] # m[b][1]

\* the media dictionaries a parsed container can give
Containers ==
    {m \in SeqsUpTo(TagPool \X PayloadLens, MaxChunks) : DistinctKeys(m)}

----------------------------------------------------------------------------
(* Initial states: the command line and the files it names *)

InitCommon ==
    /\ pc = "main"
    /\ output_path = "none"
    /\ original_size = <<0, 0>>
    /\ warned = FALSE
    /\ temp_dir = "none"
    /\ temp_files = {}
    /\ i = 0
    /\ media = <<>>
    /\ sizes_added = <<>>
    /\ writes = 0
    /\ exc = "none"
    /\ report = "none"
    /\ exitCode = Running
    /\ insp_media = <<>>
    /\ k = 0
    /\ printed = <<>>

Init ==
    /\ InitCommon
    /\ \/ /\ argv \in {<<>>, <<"--inspect">>}
          /\ inputFile = NoInput
          /\ icnsFile = Absent
          /\ preexisting = Absent
       \/ /\ argv = <<"--inspect", "file.icns">>
          /\ inputFile = NoInput
          /\ icnsFile \in {Absent, Malformed} \cup {IcnsOf(m) : m \in Containers}
          /\ preexisting = Absent
       \/ /\ argv \in {<<"input.png">>, <<"input.png", "output.icns">>}
          /\ inputFile \in {NoInput, NotImage} \cup {Png(w, h) : w \in Dims, h \in Dims}
          /\ icnsFile = Absent
          /\ preexisting \in {Absent, OldFile}
    /\ outFile = preexisting

----------------------------------------------------------------------------
(* __main__ *)

\* lines 145-152
MainUsage ==
    /\ pc = "main"
    /\ Len(argv) < 1
    /\ report' = "usage"
    /\ exitCode' = 1
    /\ pc' = "exit"
    /\ UNCHANGED <<argv, inputFile, icnsFile, preexisting, outFile, output_path,
                   original_size, warned, temp_dir, temp_files, i, media,
                   sizes_added, writes, exc, insp_media, k, printed>>

\* lines 154-157
MainInspectNoPath ==
    /\ pc = "main"
    /\ Len(argv) >= 1
    /\ argv[1] = "--inspect"
    /\ Len(argv) < 2
    /\ report' = "nopath"
    /\ exitCode' = 1
    /\ pc' = "exit"
    /\ UNCHANGED <<argv, inputFile, icnsFile, preexisting, outFile, output_path,
                   original_size, warned, temp_dir, temp_files, i, media,
                   sizes_added, writes, exc, insp_media, k, printed>>

\* line 158, the call
MainInspect ==
    /\ pc = "main"
    /\ Len(argv) >= 2
    /\ argv[1] = "--inspect"
    /\ pc' = "i_exists"
    /\ UNCHANGED <<argv, inputFile, icnsFile, preexisting, outFile, output_path,
                   original_size, warned, temp_dir, temp_files, i, media,
                   sizes_added, writes, exc, report, exitCode, insp_media, k,
                   printed>>

\* lines 160-164, the call
MainConvert ==
    /\ pc = "main"
    /\ Len(argv) >= 1
    /\ argv[1] # "--inspect"
    /\ pc' = "c_exists"
    /\ UNCHANGED <<argv, inputFile, icnsFile, preexisting, outFile, output_path,
                   original_size, warned, temp_dir, temp_files, i, media,
                   sizes_added, writes, exc, report, exitCode, insp_media, k,
                   printed>>

----------------------------------------------------------------------------
(* create_icns *)

env == <<argv, inputFile, icnsFile, preexisting>>
inspVars == <<insp_media, k, printed>>

\* an exception raised inside the try block of lines 71-100 runs the finally
RaiseInTry(e) ==
    /\ exc' = e
    /\ pc' = "c_finally"

\* lines 44-52: the input must exist; the output path is settled
CheckInput ==
    /\ pc = "c_exists"
    /\ IF inputFile.kind = "absent"
       THEN /\ exc' = "FileNotFoundError"
            /\ pc' = "c_end"
            /\ UNCHANGED output_path
       ELSE /\ output_path' = IF Len(argv) < 2 THEN WithSuffixIcns(argv[1])
                                               ELSE argv[2]
            /\ pc' = "c_open"
            /\ UNCHANGED exc
    /\ UNCHANGED <<env, inspVars, outFile, original_size, warned, temp_dir,
                   temp_files, i, media, sizes_added, writes, report, exitCode>>

\* lines 56-63: Image.open, convert to RGBA, read the size
OpenImage ==
    /\ pc = "c_open"
    /\ IF inputFile.kind = "png"
       THEN /\ original_size' = inputFile.size
            /\ pc' = "c_warn"
            /\ UNCHANGED exc
       ELSE /\ exc' = "UnidentifiedImageError"
            /\ pc' = "c_end"
            /\ UNCHANGED original_size
    /\ UNCHANGED <<env, inspVars, outFile, output_path, warned, temp_dir,
                   temp_files, i, media, sizes_added, writes, report, exitCode>>

\* lines 65-66: the warning; nothing is raised
WarnCheck ==
    /\ pc = "c_warn"
    /\ warned' = SmallerThan512(original_size)
    /\ pc' = "c_mkdtemp"
    /\ UNCHANGED <<env, inspVars, outFile, output_path, original_size, temp_dir,
                   temp_files, i, media, sizes_added, writes, exc, report,
                   exitCode>>

\* line 69 and lines 73-77: the scratch directory, the empty container, the loop
MkTemp ==
    /\ pc = "c_mkdtemp"
    /\ temp_dir' = "exists"
    /\ media' = <<>>
    /\ sizes_added' = <<>>
    /\ i' = 1
    /\ pc' = "c_loop"
    /\ UNCHANGED <<env, inspVars, outFile, output_path, original_size, warned,
                   temp_files, writes, exc, report, exitCode>>

\* line 69 raising: before the try block, no finally runs
MkTempFail ==
    /\ pc = "c_mkdtemp"
    /\ exc' = "MkdtempError"
    /\ pc' = "c_end"
    /\ UNCHANGED <<env, inspVars, outFile, output_path, original_size, warned,
                   temp_dir, temp_files, i, media, sizes_added, writes, report,
                   exitCode>>

\* lines 77-78: next entry of ICON_TYPES, taken or skipped; after the last, line 92
LoopHead ==
    /\ pc = "c_loop"
    /\ IF i > Len(ICON_TYPES)
       THEN /\ pc' = "c_write"
            /\ UNCHANGED i
       ELSE IF Eligible(ICON_TYPES[i][2], original_size)
            THEN /\ pc' = "c_resize"
                 /\ UNCHANGED i
            ELSE /\ pc' = "c_loop"
                 /\ i' = i + 1
    /\ UNCHANGED <<env, inspVars, outFile, output_path, original_size, warned,
                   temp_dir, temp_files, media, sizes_added, writes, exc,
                   report, exitCode>>

\* line 80
Resize ==
    /\ pc = "c_resize"
    /\ pc' = "c_save"
    /\ UNCHANGED <<env, inspVars, outFile, output_path, original_size, warned,
                   temp_dir, temp_files, i, media, sizes_added, writes, exc,
                   report, exitCode>>

ResizeFail ==
    /\ pc = "c_resize"
    /\ RaiseInTry("ResizeError")
    /\ UNCHANGED <<env, inspVars, outFile, output_path, original_size, warned,
                   temp_dir, temp_files, i, media, sizes_added, writes, report,
                   exitCode>>

\* lines 83-84
SaveTemp ==
    /\ pc = "c_save"
    /\ temp_files' = temp_files \cup {ICON_TYPES[i][2]}
    /\ pc' = "c_add"
    /\ UNCHANGED <<env, inspVars, outFile, output_path, original_size, warned,
                   temp_dir, i, media, sizes_added, writes, exc, report,
                   exitCode>>

SaveTempFail ==
    /\ pc = "c_save"
    /\ RaiseInTry("SaveError")
    /\ UNCHANGED <<env, inspVars, outFile, output_path, original_size, warned,
                   temp_dir, temp_files, i, media, sizes_added, writes, report,
                   exitCode>>

\* lines 87-89 with the container written out after every entry
AddMediaWriteEach ==
    /\ pc = "c_add"
    /\ media' = Append(media, <<ICON_TYPES[i][1], <<"png", ICON_TYPES[i][2]>> >>)
    /\ sizes_added' = Append(sizes_added, ICON_TYPES[i][3])
    /\ i' = i + 1
    /\ pc' = "c_loop"
    /\ writes' = writes + 1
    /\ outFile' = IcnsOf(media')
    /\ UNCHANGED <<env, inspVars, output_path, original_size, warned,
                   temp_dir, temp_files, exc, report, exitCode>>

\* lines 87-89: the payload is the PNG of the bitmap resized to that size
AddMedia ==
    /\ pc = "c_add"
    /\ media' = Append(media, <<ICON_TYPES[i][1], <<"png", ICON_TYPES[i][2]>> >>)
    /\ sizes_added' = Append(sizes_added, ICON_TYPES[i][3])
    /\ i' = i + 1
    /\ pc' = "c_loop"
    /\ UNCHANGED <<env, inspVars, outFile, output_path, original_size, warned,
                   temp_dir, temp_files, writes, exc, report, exitCode>>

AddMediaFail ==
    /\ pc = "c_add"
    /\ RaiseInTry("AddMediaError")
    /\ UNCHANGED <<env, inspVars, outFile, output_path, original_size, warned,
                   temp_dir, temp_files, i, media, sizes_added, writes, report,
                   exitCode>>

\* lines 92-94
Write ==
    /\ pc = "c_write"
    /\ writes' = writes + 1
    /\ outFile' = IcnsOf(media)
    /\ pc' = "c_stat"
    /\ UNCHANGED <<env, inspVars, output_path, original_size, warned, temp_dir,
                   temp_files, i, media, sizes_added, exc, report, exitCode>>

\* line 92 raising: the file is untouched (it could not be opened) or cut short
WriteFail ==
    /\ pc = "c_write"
    /\ writes' = writes + 1
    /\ outFile' \in {outFile, Partial}
    /\ RaiseInTry("WriteError")
    /\ UNCHANGED <<env, inspVars, output_path, original_size, warned, temp_dir,
                   temp_files, i, media, sizes_added, report, exitCode>>

\* lines 97-100: stat, then return, which runs the finally
Stat ==
    /\ pc = "c_stat"
    /\ pc' = "c_finally"
    /\ UNCHANGED <<env, inspVars, outFile, output_path, original_size, warned,
                   temp_dir, temp_files, i, media, sizes_added, writes, exc,
                   report, exitCode>>

StatFail ==
    /\ pc = "c_stat"
    /\ RaiseInTry("StatError")
    /\ UNCHANGED <<env, inspVars, outFile, output_path, original_size, warned,
                   temp_dir, temp_files, i, media, sizes_added, writes, report,
                   exitCode>>

\* the finally of lines 102-104 without its body's effect on an error
FinallyLeakOnError ==
    /\ pc = "c_finally"
    /\ temp_dir' = IF exc = "none" THEN "removed" ELSE temp_dir
    /\ temp_files' = IF exc = "none" THEN {} ELSE temp_files
    /\ pc' = "c_end"
    /\ UNCHANGED <<env, inspVars, outFile, output_path, original_size, warned,
                   i, media, sizes_added, writes, exc, report, exitCode>>

\* lines 102-104: shutil.rmtree(temp_dir), on return and on error alike
Finally ==
    /\ pc = "c_finally"
    /\ temp_dir' = "removed"
    /\ temp_files' = {}
    /\ pc' = "c_end"
    /\ UNCHANGED <<env, inspVars, outFile, output_path, original_size, warned,
                   i, media, sizes_added, writes, exc, report, exitCode>>

\* lines 163-167: create_icns is over; an exception is printed and exits 1
MainConvertEnd ==
    /\ pc = "c_end"
    /\ exitCode' = IF exc # "none" THEN 1 ELSE 0
    /\ report' = IF exc # "none" THEN "error" ELSE "none"
    /\ pc' = "exit"
    /\ UNCHANGED <<env, inspVars, outFile, output_path, original_size, warned,
                   temp_dir, temp_files, i, media, sizes_added, writes, exc>>

----------------------------------------------------------------------------
(* inspect_icns *)

createVars == <<outFile, output_path, original_size, warned, temp_dir,
                temp_files, i, media, sizes_added, writes>>

\* lines 111-114
InspectCheck ==
    /\ pc = "i_exists"
    /\ IF icnsFile.kind = "absent"
       THEN /\ exc' = "FileNotFoundError"
            /\ pc' = "i_end"
       ELSE /\ pc' = "i_parse"
            /\ UNCHANGED exc
    /\ UNCHANGED <<env, createVars, inspVars, report, exitCode>>

\* line 119: IcnsFile(path) parses the file or raises
InspectParse ==
    /\ pc = "i_parse"
    /\ IF icnsFile.kind = "icns"
       THEN /\ insp_media' = icnsFile.chunks
            /\ k' = 1
            /\ pc' = "i_loop"
            /\ UNCHANGED exc
       ELSE /\ exc' = "ParseError"
            /\ pc' = "i_end"
            /\ UNCHANGED <<insp_media, k>>
    /\ UNCHANGED <<env, createVars, printed, report, exitCode>>

\* lines 136-138: one entry of icns.media
InspectEntry ==
    /\ pc = "i_loop"
    /\ k <= Len(insp_media)
    /\ LET key == insp_media[k][1]
           desc == TypeInfoGet(key, "unknown")
       IN printed' = Append(printed, <<key, desc, insp_media[k][2]>>)
    /\ k' = k + 1
    /\ UNCHANGED <<env, createVars, insp_media, pc, exc, report, exitCode>>

\* lines 140-141: after the loop, return
InspectDone ==
    /\ pc = "i_loop"
    /\ k > Len(insp_media)
    /\ pc' = "i_end"
    /\ UNCHANGED <<env, createVars, inspVars, exc, report, exitCode>>

\* line 158 with an exception swallowed
MainInspectEndSwallow ==
    /\ pc = "i_end"
    /\ exitCode' = 0
    /\ report' = "none"
    /\ pc' = "exit"
    /\ UNCHANGED <<env, createVars, inspVars, exc>>

\* line 158, after the call: no handler around it, so an exception leaves the
\* program, the interpreter prints the traceback and exits with status 1
MainInspectEnd ==
    /\ pc = "i_end"
    /\ exitCode' = IF exc # "none" THEN 1 ELSE 0
    /\ report' = IF exc # "none" THEN "traceback" ELSE "none"
    /\ pc' = "exit"
    /\ UNCHANGED <<env, createVars, inspVars, exc>>

----------------------------------------------------------------------------

Next ==
    \/ MainUsage
    \/ MainInspectNoPath
    \/ MainInspect
    \/ MainConvert
    \/ CheckInput
    \/ OpenImage
    \/ WarnCheck
    \/ MkTemp
    \/ MkTempFail
    \/ LoopHead
    \/ Resize
    \/ ResizeFail
    \/ SaveTemp
    \/ SaveTempFail
    \/ AddMedia
    \/ AddMediaFail
    \/ Write
    \/ WriteFail
    \/ Stat
    \/ StatFail
    \/ Finally
    \/ MainConvertEnd
    \/ InspectCheck
    \/ InspectParse
    \/ InspectEntry
    \/ InspectDone
    \/ MainInspectEnd

Spec == Init /\ [][Next]_vars

----------------------------------------------------------------------------
(* Vocabulary of the properties *)

IsConvert == Len(argv) >= 1 /\ argv[1] # "--inspect"
IsInspect == Len(argv) >= 2 /\ argv[1] = "--inspect"

\* the size table as the specification lists it
CanonicalDims == <<16, 32, 64, 128, 256, 512, 1024>>
CanonicalTags == <<"icp4", "icp5", "icp6", "ic07", "ic08", "ic09", "ic10">>
CanonicalLabels == <<"16x16", "32x32", "64x64", "128x128", "256x256", "512x512",
                     "1024x1024 (512@2x)">>

\* the tags of the entries whose dimension is <= d, in canonical order
RECURSIVE TagsFrom(_, _)
TagsFrom(n, d) ==
    IF n > Len(CanonicalDims) THEN <<>>
    ELSE IF CanonicalDims[n] <= d THEN <<CanonicalTags[n]>> \o TagsFrom(n + 1, d)
         ELSE TagsFrom(n + 1, d)

TagsUpTo(d) == TagsFrom(1, d)

Range(f) == {f[x] : x \in DOMAIN f}

\* the for loop of create_icns has run to its end
LoopDone == pc = "c_write" \/ writes > 0

\* create_icns has read the source size and is past the test of line 65
PastWarn == IsConvert /\ original_size # <<0, 0>> /\ pc # "c_warn"

\* the source has no entry to add
EmptySource == inputFile.kind = "png" /\ Max(inputFile.size) < 16

----------------------------------------------------------------------------
(* C1 *)

\* C1: once the loop of create_icns is over, the chunks added are exactly the
\* entries of the size table whose dimension is <= max(w, h), once each and in
\* the table's order; so every entry that a smaller source would get is there
\* too, a 16x16 source has the one chunk icp4, a 512x512 source the six chunks
\* icp4..ic09 and a 1024x1024 source all seven.
C1_ChunksAreEntriesUpToMax ==
    LoopDone =>
        /\ Keys(media) = TagsUpTo(Max(original_size))
        /\ \A j \in 1..Len(media) :
              \E n \in 1..Len(CanonicalDims) :
                  /\ media[j][1] = CanonicalTags[n]
                  /\ media[j][2] = <<"png", CanonicalDims[n]>>
        /\ \A d \in Dims :
              d <= Max(original_size) => Range(TagsUpTo(d)) \subseteq Range(Keys(media))
        /\ original_size = <<16, 16>> => Keys(media) = <<"icp4">>
        /\ original_size = <<512, 512>> =>
              Keys(media) = <<"icp4", "icp5", "icp6", "ic07", "ic08", "ic09">>
        /\ original_size = <<1024, 1024>> => Keys(media) = CanonicalTags

C1_Witness ==
    /\ pc = "c_write"
    /\ original_size = <<512, 512>>
    /\ Len(media) = 6

----------------------------------------------------------------------------
(* C2 *)

\* C2: a convert run on a source whose largest dimension is below 16 fails:
\* no container is ever written to the output path and create_icns never
\* ends without an exception.
C2_EmptySourceFails ==
    (IsConvert /\ EmptySource) =>
        /\ outFile.kind # "icns"
        /\ pc \in {"c_end", "exit"} => exc # "none"

----------------------------------------------------------------------------
(* C3 *)

\* C3 as stated: the warning is printed exactly when both dimensions are
\* below 512.
C3_WarnedIffBothBelow512 ==
    PastWarn => (warned <=> (original_size[1] < 512 /\ original_size[2] < 512))

\* C3, amended: the warning is printed exactly when at least one dimension is
\* below 512; it raises nothing, and a run that printed it and met no error
\* ends with the container of every eligible entry written, exit status 0.
C3_WarnedIffEitherBelow512 ==
    PastWarn =>
        /\ warned <=> (original_size[1] < 512 \/ original_size[2] < 512)
        /\ pc = "c_mkdtemp" => exc = "none"
        /\ (warned /\ pc = "exit" /\ exc = "none") =>
              /\ exitCode = 0
              /\ outFile = IcnsOf(media)
              /\ Keys(media) = TagsUpTo(Max(original_size))

C3_Witness ==
    /\ pc = "exit"
    /\ warned
    /\ original_size = <<1024, 100>>
    /\ exitCode = 0
    /\ Len(outFile.chunks) = 7

----------------------------------------------------------------------------
(* C5 *)

----------------------------------------------------------------------------
(* C6 *)

\* C6: a convert run exits 0 exactly when create_icns raised nothing and
\* exits 1, with the error printed, when it raised; a missing input, a source
\* with no entry to add and a failing resize are such errors.
C6_ConvertExitCode ==
    (pc = "exit" /\ IsConvert) =>
        /\ exitCode = 0 <=> exc = "none"
        /\ exc # "none" => (exitCode = 1 /\ report = "error")
        /\ inputFile.kind = "absent" => exitCode = 1
        /\ EmptySource => exitCode = 1
        /\ exc = "ResizeError" => exitCode = 1

----------------------------------------------------------------------------
(* C7 *)

\* C7: an inspect run exits 0 when the container was parsed and every entry
\* reported, and 1 when the path does not exist or the file does not parse;
\* a run with no argument, or with --inspect alone, prints its usage or error
\* text and exits 1.
C7_InspectExitCode ==
    pc = "exit" =>
        /\ argv = <<>> => (exitCode = 1 /\ report = "usage")
        /\ argv = <<"--inspect">> => (exitCode = 1 /\ report = "nopath")
        /\ (IsInspect /\ icnsFile.kind = "icns") =>
              (exitCode = 0 /\ Len(printed) = Len(icnsFile.chunks))
        /\ (IsInspect /\ icnsFile.kind \in {"absent", "malformed"}) =>
              (exitCode = 1 /\ printed = <<>>)

C7_Witness ==
    /\ pc = "exit"
    /\ IsInspect
    /\ icnsFile.kind = "malformed"
    /\ exitCode = 1

----------------------------------------------------------------------------
(* C8 *)

\* C8 as stated: every entry inspect reports carries the size table's label
\* when its tag is in the size table, and "unknown" for any other tag.
C8_OtherTagsUnknown ==
    \A j \in 1..Len(printed) :
        /\ \A n \in 1..Len(CanonicalTags) :
              printed[j][1] = CanonicalTags[n] => printed[j][2] = CanonicalLabels[n]
        /\ printed[j][1] \notin Range(CanonicalTags) => printed[j][2] = "unknown"

\* C8, amended: reporting an entry never raises; a tag of the size table gets
\* that entry's label (ic07 gets "128x128"), the four further tags ic11, ic12,
\* ic13 and ic14 that inspect knows get their own labels, and any other tag
\* (zzzz) gets "unknown".
C8_LabelResolution ==
    /\ pc = "i_loop" => exc = "none"
    /\ \A j \in 1..Len(printed) :
          /\ printed[j][1] = insp_media[j][1]
          /\ \A n \in 1..Len(CanonicalTags) :
                printed[j][1] = CanonicalTags[n] => printed[j][2] = CanonicalLabels[n]
          /\ printed[j][1] = "ic07" => printed[j][2] = "128x128"
          /\ printed[j][1] = "ic11" => printed[j][2] = "32x32 (16@2x)"
          /\ printed[j][1] = "ic12" => printed[j][2] = "64x64 (32@2x)"
          /\ printed[j][1] = "ic13" => printed[j][2] = "256x256 (128@2x)"
          /\ printed[j][1] = "ic14" => printed[j][2] = "512x512 (256@2x)"
          /\ printed[j][1] \notin
                 Range(CanonicalTags) \cup {"ic11", "ic12", "ic13", "ic14"} =>
                printed[j][2] = "unknown"

C8_Witness ==
    /\ pc = "exit"
    /\ exitCode = 0
    /\ Len(printed) = 2
    /\ printed[1][1] = "zzzz"
    /\ printed[1][2] = "unknown"
    /\ printed[2][1] = "ic07"

----------------------------------------------------------------------------
(* C9 *)

\* C9 as stated: the two tables know the same tags with the same labels: the
\* label convert prints for a chunk is the one inspect resolves for its tag,
\* and inspect resolves a label only for tags that convert can emit.
C9_OneTable ==
    /\ \A j \in 1..Len(media) : TypeInfoGet(media[j][1], "unknown") = sizes_added[j]
    /\ \A j \in 1..Len(printed) :
          printed[j][2] # "unknown" => printed[j][1] \in Range(Keys(ICON_TYPES))

\* C9, amended: every tag of the encode table is in the inspect table with
\* the same label, so the label convert prints for a chunk is the one inspect
\* resolves for its tag; the inspect table knows four tags more (ic11, ic12,
\* ic13, ic14), and no other.
C9_EncodeTableWithinInspectTable ==
    /\ \A j \in 1..Len(media) : TypeInfoGet(media[j][1], "unknown") = sizes_added[j]
    /\ \A j \in 1..Len(printed) :
          printed[j][2] # "unknown" =>
              printed[j][1] \in Range(Keys(ICON_TYPES)) \cup {"ic11", "ic12", "ic13", "ic14"}

C9_Witness ==
    /\ pc = "c_write"
    /\ Len(media) = 7
    /\ sizes_added[7] = "1024x1024 (512@2x)"

----------------------------------------------------------------------------
(* C10 *)

\* C10: icns.write is started at most once in a run, and only when the loop
\* has added every eligible entry; a run whose input is missing or unreadable,
\* or in which resize, save or add_media failed, never starts it, and until
\* it is started the output path holds what it held before; a container at
\* the output path is never a partly built one.
C10_WriteOnceAfterAll ==
    /\ writes <= 1
    /\ writes = 1 =>
          /\ i > Len(ICON_TYPES)
          /\ Keys(media) = TagsUpTo(Max(original_size))
    /\ exc \in {"FileNotFoundError", "UnidentifiedImageError", "ResizeError",
                "SaveError", "AddMediaError"} => writes = 0
    /\ writes = 0 => outFile = preexisting
    /\ outFile.kind = "icns" => Keys(outFile.chunks) = TagsUpTo(Max(original_size))

C10_Witness ==
    /\ pc = "exit"
    /\ exc = "AddMediaError"
    /\ Len(media) > 0
    /\ preexisting = OldFile
    /\ outFile = OldFile

====
